---- MODULE Spec2Model ----
(***************************************************************************)
(* Portal-22 (portal_22.py): SSH key and config generator.                 *)
(*                                                                         *)
(* Text is modelled as a sequence of tokens: a token is an atom of text    *)
(* (a letter, a separator, a fixed fragment of a template).  The config    *)
(* file, the key paths, the config blocks and the console lines are all    *)
(* token sequences, built by concatenation exactly as the f-strings and    *)
(* os.path.join of the source build them.                                  *)
(***************************************************************************)
EXTENDS Integers, Sequences, FiniteSets, TLC

\* ---- bounds of the model -------------------------------------------------
MaxMachines == 2
MaxRuns == 2
\* records loaded over all the runs of one behaviour
MaxRecords == 3

\* ---- text helpers --------------------------------------------------------
\* Python's None, as the value of an absent field of a record
None == <<"<None>">>

\* str(x) inside an f-string: None is rendered as the text "None"
Str(x) == IF x = None THEN <<"None">> ELSE x

\* truthiness of an Optional[str]: None and the empty string are falsy
Truthy(x) == x # None /\ x # <<>>

\* str.lower() on a token sequence
LowerTok(t) == IF t = "W" THEN "w" ELSE t

Lower(s) == [k \in 1..Len(s) |-> LowerTok(s[k])]

\* `sub in s` for str: sub occurs as a contiguous run of s
Contains(s, sub) ==
    \E k \in 0..(Len(s) - Len(sub)) : SubSeq(s, k + 1, k + Len(sub)) = sub

\* os.path.expanduser: a leading "~" is replaced by the home directory
Expanduser(p) == IF Len(p) > 0 /\ p[1] = "~" THEN <<"/home/u">> \o Tail(p) ELSE p

\* str.strip() as used on the header: drops the trailing newline
Strip(s) == IF Len(s) > 0 /\ s[Len(s)] = "\n" THEN SubSeq(s, 1, Len(s) - 1) ELSE s

portal_header == <<"#### PORTAL-22 GENERATED KEYS ####", "\n">>

ssh_config_path == Expanduser(<<"~", "/.ssh/config">>)

\* ---- machine records -----------------------------------------------------
Machine(h, a, s, u) == [hostname |-> h, ip |-> a, scope |-> s, user |-> u]

ValidUpper == Machine(<<"W", "1">>, <<"10.0.0.5">>, <<"prod">>, <<"deploy">>)
ValidLower == Machine(<<"w", "1">>, <<"10.0.0.5">>, <<"prod">>, <<"deploy">>)

Records ==
    { ValidUpper, ValidLower,
      Machine(None, <<"10.0.0.5">>, <<"prod">>, <<"deploy">>),
      Machine(<<"W", "1">>, <<>>, <<"prod">>, <<"deploy">>),
      Machine(<<"w", "1">>, <<"10.0.0.5">>, None, <<"deploy">>),
      Machine(<<"W", "1">>, <<"10.0.0.5">>, <<"prod">>, None) }

MachineLists == UNION { [1..n -> Records] : n \in 0..MaxMachines }

\* ---- the YAML input ------------------------------------------------------
\* What yaml.safe_load yields for the file: its Python type, its truthiness,
\* whether `"machines" in data` is true, and data["machines"] for a mapping.
Data(t, f, h, ms) == [type |-> t, falsy |-> f, hasMachines |-> h, machines |-> ms]

YamlFile(st, d) == [status |-> st, data |-> d]

NoData == Data("none", TRUE, FALSE, <<>>)

FailingFiles ==
    { YamlFile("missing", NoData),                          \* no such file
      YamlFile("malformed", NoData),                        \* yaml.YAMLError
      YamlFile("ok", NoData),                               \* empty document
      YamlFile("ok", Data("dict", TRUE, FALSE, <<>>)),      \* {}
      YamlFile("ok", Data("dict", FALSE, FALSE, <<>>)),     \* hosts: [...]
      YamlFile("ok", Data("list", FALSE, FALSE, <<>>)),     \* - a
      YamlFile("ok", Data("list", FALSE, TRUE, <<>>)),      \* - machines
      YamlFile("ok", Data("str", FALSE, FALSE, <<>>)),      \* hello
      YamlFile("ok", Data("str", FALSE, TRUE, <<>>)),       \* machines
      YamlFile("ok", Data("int", TRUE, FALSE, <<>>)),       \* 0
      YamlFile("ok", Data("int", FALSE, FALSE, <<>>)) }     \* 42

YamlFiles ==
    FailingFiles \cup
    { YamlFile("ok", Data("dict", FALSE, TRUE, ms)) : ms \in MachineLists }

Msg(tag, arg) == [tag |-> tag, arg |-> arg]

Loaded(raised, value, out) == [raised |-> raised, value |-> value, out |-> out]

\* load_yaml: the machines list, [] on a caught error, or an uncaught raise
load_yaml(file) ==
    IF file.status = "missing" \/ file.status = "malformed"
    THEN Loaded(FALSE, <<>>, <<Msg("[!] Error loading YAML file", <<>>)>>)
    ELSE LET data == file.data IN
         IF data.falsy
         THEN Loaded(FALSE, <<>>, <<Msg("[!] No 'machines' key found", <<>>)>>)
         ELSE IF data.type = "int"
         THEN Loaded(TRUE, <<>>, <<>>)          \* `in` on an int: TypeError
         ELSE IF ~data.hasMachines
         THEN Loaded(FALSE, <<>>, <<Msg("[!] No 'machines' key found", <<>>)>>)
         ELSE IF data.type = "dict"
         THEN Loaded(FALSE, data.machines, <<>>)
         ELSE Loaded(TRUE, <<>>, <<>>)          \* str/list indexed by a str: TypeError

\* ---- process_machine -----------------------------------------------------
keys_dir == Expanduser(<<"~", "/.ssh/keys">>)

\* os.path.join(keys_dir, f"key.{scope}.{hostname}.{user}"), then expanduser
KeyPath(m) ==
    Expanduser(keys_dir \o <<"/", "key", ".">> \o Str(m.scope) \o <<".">>
               \o Str(m.hostname) \o <<".">> \o Str(m.user))

\* the -C argument of ssh-keygen
KeyComment(m) == Str(m.scope) \o <<".">> \o Str(m.hostname) \o <<".">> \o Str(m.user)

\* Validate without its guard on scope
ValidateNoScopeGuard(m) ==
    IF ~Truthy(m.hostname) THEN <<Msg("No Hostname available, skipping", <<>>)>>
    ELSE IF ~Truthy(m.ip) THEN <<Msg("No IP available, skipping", m.hostname)>>
    ELSE IF ~Truthy(m.user) THEN <<Msg("No User available, skipping", m.hostname)>>
    ELSE <<>>

\* the four guards at the top of process_machine: the skip message, or <<>>
Validate(m) ==
    IF ~Truthy(m.hostname) THEN <<Msg("No Hostname available, skipping", <<>>)>>
    ELSE IF ~Truthy(m.ip) THEN <<Msg("No IP available, skipping", m.hostname)>>
    ELSE IF ~Truthy(m.scope) THEN <<Msg("No Scope available, skipping", m.hostname)>>
    ELSE IF ~Truthy(m.user) THEN <<Msg("No User available, skipping", m.hostname)>>
    ELSE <<>>

\* DryEntry with the host alias not lowercased
DryEntryNoLower(m, key_path) ==
    <<"Host ">> \o m.hostname \o <<".">> \o Str(m.user) \o <<"\n">>
    \o <<"                HostName ">> \o Str(m.ip) \o <<"\n">>
    \o <<"                User ">> \o Str(m.user) \o <<"\n">>
    \o <<"                IdentityFile ">> \o key_path \o <<"\n">>
    \o <<"            ">>

\* the block previewed by the dry-run branch
DryEntry(m, key_path) ==
    <<"Host ">> \o Lower(m.hostname) \o <<".">> \o Str(m.user) \o <<"\n">>
    \o <<"                HostName ">> \o Str(m.ip) \o <<"\n">>
    \o <<"                User ">> \o Str(m.user) \o <<"\n">>
    \o <<"                IdentityFile ">> \o key_path \o <<"\n">>
    \o <<"            ">>

\* the block written by the apply branch
ApplyEntry(m, key_path) ==
    <<"Host ">> \o Lower(m.hostname) \o <<".">> \o Str(m.user) \o <<"\n">>
    \o <<"                HostName ">> \o Str(m.ip) \o <<"\n">>
    \o <<"                User ">> \o Str(m.user) \o <<"\n">>
    \o <<"                IdentityFile ">> \o key_path \o <<"\n">>
    \o <<"            ">>

\* os.path.exists(key_path_expanded)
KeyExists(files, key_path) == key_path \in DOMAIN files

\* subprocess.call(["ssh-keygen", ...]): exit status 0 creates the key file,
\* a nonzero status leaves the filesystem as it was
SshKeygen(files, key_path, comment, status) ==
    IF status = 0
    THEN [p \in DOMAIN files \cup {key_path} |->
            IF p = key_path THEN comment ELSE files[p]]
    ELSE files

\* ssh_conf.write(text) on a handle opened in append mode
FileWrite(cfg, text) == [exists |-> TRUE, content |-> cfg.content \o text]

\* OpenAppend with mode "w+": the file is truncated
OpenTruncate(cfg) == [exists |-> TRUE, content |-> <<>>]

\* open(ssh_config_path, "a+"): creates the file when absent, keeps its content
OpenAppend(cfg) == [exists |-> TRUE, content |-> cfg.content]

Effect(cfg, files, out, calls) ==
    [config |-> cfg, keyFiles |-> files, out |-> out, calls |-> calls]

\* DryBranch that generates the key it reports
DryBranchGenerates(m, cfg, files, key_path) ==
    Effect(cfg,
           IF KeyExists(files, key_path) THEN files
           ELSE SshKeygen(files, key_path, KeyComment(m), 0),
           <<IF KeyExists(files, key_path)
             THEN Msg("[SKIP] Key already exists", key_path)
             ELSE Msg("[DRY-RUN] Would generate key", key_path),
             Msg("[DRY-RUN] Would append to SSH config", DryEntry(m, key_path))>>,
           IF KeyExists(files, key_path) THEN <<>>
           ELSE <<[path |-> key_path, comment |-> KeyComment(m), status |-> 0]>>)

\* the dry-run branch of process_machine
DryBranch(m, cfg, files, key_path) ==
    Effect(cfg, files,
           <<IF KeyExists(files, key_path)
             THEN Msg("[SKIP] Key already exists", key_path)
             ELSE Msg("[DRY-RUN] Would generate key", key_path),
             Msg("[DRY-RUN] Would append to SSH config", DryEntry(m, key_path))>>,
           <<>>)

\* ApplyBranch without the existence check: the key is always generated
ApplyBranchAlwaysGenerates(m, cfg, files, key_path, status) ==
    Effect(FileWrite(cfg, ApplyEntry(m, key_path)),
           SshKeygen(files, key_path, KeyComment(m), status),
           <<Msg("Generated key", key_path)>>,
           <<[path |-> key_path, comment |-> KeyComment(m), status |-> status]>>)

\* ApplyBranch that writes the block only after generating the key
ApplyBranchBlockOnlyWithKey(m, cfg, files, key_path, status) ==
    IF KeyExists(files, key_path)
    THEN Effect(cfg, files, <<Msg("[SKIP] Key already exists", key_path)>>, <<>>)
    ELSE Effect(FileWrite(cfg, ApplyEntry(m, key_path)),
                SshKeygen(files, key_path, KeyComment(m), status),
                <<Msg("Generated key", key_path)>>,
                <<[path |-> key_path, comment |-> KeyComment(m), status |-> status]>>)

\* ApplyBranch that checks the exit status and gives the record up on failure
ApplyBranchChecksStatus(m, cfg, files, key_path, status) ==
    IF KeyExists(files, key_path)
    THEN Effect(FileWrite(cfg, ApplyEntry(m, key_path)), files,
                <<Msg("[SKIP] Key already exists", key_path)>>, <<>>)
    ELSE IF status # 0
    THEN Effect(cfg, files, <<Msg("[!] Key generation failed", key_path)>>,
                <<[path |-> key_path, comment |-> KeyComment(m), status |-> status]>>)
    ELSE Effect(FileWrite(cfg, ApplyEntry(m, key_path)),
                SshKeygen(files, key_path, KeyComment(m), status),
                <<Msg("Generated key", key_path)>>,
                <<[path |-> key_path, comment |-> KeyComment(m), status |-> status]>>)

\* the apply branch of process_machine
ApplyBranch(m, cfg, files, key_path, status) ==
    IF KeyExists(files, key_path)
    THEN Effect(FileWrite(cfg, ApplyEntry(m, key_path)), files,
                <<Msg("[SKIP] Key already exists", key_path)>>, <<>>)
    ELSE Effect(FileWrite(cfg, ApplyEntry(m, key_path)),
                SshKeygen(files, key_path, KeyComment(m), status),
                <<Msg("Generated key", key_path)>>,
                <<[path |-> key_path, comment |-> KeyComment(m), status |-> status]>>)

\* process_machine(machine, ssh_conf, dry_run); status is the exit status the
\* key-generation command returns if it is invoked
process_machine(m, cfg, files, dry, status) ==
    IF Validate(m) # <<>>
    THEN Effect(cfg, files, Validate(m), <<>>)
    ELSE IF dry
         THEN DryBranch(m, cfg, files, KeyPath(m))
         ELSE ApplyBranch(m, cfg, files, KeyPath(m), status)

\* ---- state ---------------------------------------------------------------
VARIABLES
    pc,               \* position of main: idle, loaded, prepared, loop, done, crashed
    config,           \* ~/.ssh/config: [exists, content]
    keysDir,          \* whether ~/.ssh/keys exists
    keyFiles,         \* files under ~/.ssh/keys: path -> content
    yaml,             \* the input file of the current run
    dry_run,          \* args.dry_run
    machines,         \* the loaded sequence
    idx,              \* position of the for loop in machines
    existing_content, \* the local of main
    handles,          \* modes in which the config file was opened in this run
    console,          \* what this run printed
    kgCalls,          \* key-generation commands this run invoked
    runs,             \* runs started so far
    loadedRecords,    \* records loaded over the runs so far
    applied,          \* apply runs completed so far
    pre               \* the filesystem as it was when the current run started

vars == <<pc, config, keysDir, keyFiles, yaml, dry_run, machines, idx,
          existing_content, handles, console, kgCalls, runs, loadedRecords,
          applied, pre>>

Snapshot == [config |-> config, keysDir |-> keysDir, keyFiles |-> keyFiles]

InitConfigs ==
    { [exists |-> FALSE, content |-> <<>>],
      [exists |-> TRUE, content |-> <<"Host x">>] }

InitKeyPaths == { KeyPath(ValidUpper) }

Init ==
    /\ pc = "idle"
    /\ config \in InitConfigs
    /\ \E old \in SUBSET InitKeyPaths : keyFiles = [p \in old |-> <<"old">>]
    /\ keysDir = (DOMAIN keyFiles # {})
    /\ yaml = YamlFile("missing", NoData)
    /\ dry_run = FALSE
    /\ machines = <<>>
    /\ idx = 0
    /\ existing_content = <<>>
    /\ handles = {}
    /\ console = <<>>
    /\ kgCalls = <<>>
    /\ runs = 0
    /\ loadedRecords = 0
    /\ applied = 0
    /\ pre = Snapshot

\* ---- main ----------------------------------------------------------------
\* HeaderAbsent that never finds the header
HeaderAbsentAlways(existing) == TRUE

\* `portal_header.strip() not in existing_content`
HeaderAbsent(existing) == ~Contains(existing, Strip(portal_header))

\* ApplyMode that takes the apply branch in both modes
ApplyModeAlways(dry) == TRUE

\* `if not args.dry_run`
ApplyMode(dry) == ~dry

\* argument parsing and load_yaml
StartRun(file, dry) ==
    /\ pc \in {"idle", "done", "crashed"}
    /\ runs < MaxRuns
    /\ loadedRecords + Len(file.data.machines) <= MaxRecords
    /\ runs' = runs + 1
    /\ loadedRecords' = loadedRecords + Len(file.data.machines)
    /\ yaml' = file
    /\ dry_run' = dry
    /\ pre' = Snapshot
    /\ LET r == load_yaml(file) IN
         /\ pc' = IF r.raised THEN "crashed" ELSE "loaded"
         /\ machines' = r.value
         /\ console' = <<Msg("HEADER_BANNER", <<>>)>> \o r.out
    /\ idx' = 0
    /\ existing_content' = <<>>
    /\ handles' = {}
    /\ kgCalls' = <<>>
    /\ UNCHANGED <<config, keysDir, keyFiles, applied>>

\* os.makedirs(keys_dir, exist_ok=True) and the read of the existing config
Prepare ==
    /\ pc = "loaded"
    /\ keysDir' = TRUE
    /\ IF config.exists
       THEN /\ handles' = handles \cup {"r"}
            /\ existing_content' = config.content
       ELSE UNCHANGED <<handles, existing_content>>
    /\ pc' = "prepared"
    /\ UNCHANGED <<config, keyFiles, yaml, dry_run, machines, idx, console,
                   kgCalls, runs, loadedRecords, applied, pre>>

\* the branch on args.dry_run: apply mode opens the config and writes the header
OpenConfig ==
    /\ pc = "prepared"
    /\ IF ApplyMode(dry_run)
       THEN /\ handles' = handles \cup {"a+"}
            /\ config' = IF HeaderAbsent(existing_content)
                         THEN FileWrite(OpenAppend(config), portal_header)
                         ELSE OpenAppend(config)
       ELSE UNCHANGED <<handles, config>>
    /\ idx' = 1
    /\ pc' = "loop"
    /\ UNCHANGED <<keysDir, keyFiles, yaml, dry_run, machines, existing_content,
                   console, kgCalls, runs, loadedRecords, applied, pre>>

\* one iteration of `for machine in machines`
ProcessMachine(status) ==
    /\ pc = "loop"
    /\ idx <= Len(machines)
    /\ LET e == process_machine(machines[idx], config, keyFiles, dry_run, status) IN
         /\ config' = e.config
         /\ keyFiles' = e.keyFiles
         /\ console' = console \o e.out
         /\ kgCalls' = kgCalls \o e.calls
    /\ idx' = idx + 1
    /\ UNCHANGED <<pc, keysDir, yaml, dry_run, machines, existing_content,
                   handles, runs, loadedRecords, applied, pre>>

\* the end of the loop: apply mode closes the file and prints the confirmation
Finish ==
    /\ pc = "loop"
    /\ idx > Len(machines)
    /\ pc' = "done"
    /\ IF ~dry_run
       THEN /\ console' = console \o <<Msg("SSH config updated", ssh_config_path)>>
            /\ applied' = applied + 1
       ELSE UNCHANGED <<console, applied>>
    /\ UNCHANGED <<config, keysDir, keyFiles, yaml, dry_run, machines, idx,
                   existing_content, handles, kgCalls, runs, loadedRecords, pre>>

Next ==
    \/ \E file \in YamlFiles, dry \in BOOLEAN : StartRun(file, dry)
    \/ Prepare
    \/ OpenConfig
    \/ \E status \in {0, 1} : ProcessMachine(status)
    \/ Finish

Spec == Init /\ [][Next]_vars

\* ---- helpers of the properties --------------------------------------------
Fields == {"hostname", "ip", "scope", "user"}

\* the record lacks one of the four fields (absent or empty)
MissingAny(m) == \E f \in Fields : m[f] = None \/ m[f] = <<>>

IsPrefix(s, t) == Len(s) <= Len(t) /\ SubSeq(t, 1, Len(s)) = s

\* number of occurrences of sub in s
Count(s, sub) ==
    Cardinality({ k \in 0..(Len(s) - Len(sub)) : SubSeq(s, k + 1, k + Len(sub)) = sub })

HeaderLine == <<"#### PORTAL-22 GENERATED KEYS ####">>

\* the block of the spec for a valid record
Block(m) ==
    <<"Host ">> \o Lower(m.hostname) \o <<".">> \o m.user \o <<"\n">>
    \o <<"                HostName ">> \o m.ip \o <<"\n">>
    \o <<"                User ">> \o m.user \o <<"\n">>
    \o <<"                IdentityFile ">> \o KeyPath(m) \o <<"\n">>
    \o <<"            ">>

RECURSIVE BlocksOfValid(_)
\* the blocks of the valid records of ms, in the order of ms
BlocksOfValid(ms) ==
    IF ms = <<>> THEN <<>>
    ELSE (IF MissingAny(Head(ms)) THEN <<>> ELSE Block(Head(ms)))
         \o BlocksOfValid(Tail(ms))

\* the loop is about to process a record
AtRecord == pc = "loop" /\ idx <= Len(machines)

Printed(msg) == \E k \in 1..Len(console) : console[k] = msg

TypeOK ==
    /\ pc \in {"idle", "loaded", "prepared", "loop", "done", "crashed"}
    /\ runs \in 0..MaxRuns
    /\ idx \in 0..(Len(machines) + 1)

\* ---- properties ----------------------------------------------------------
\* C1: a record missing any of hostname, ip, scope, user causes no key
\* generation, no key file and no config block, and the loop moves on to the
\* next record.
C1_InvalidRecordSkipped ==
    [][ (AtRecord /\ MissingAny(machines[idx]))
        => /\ kgCalls' = kgCalls
           /\ keyFiles' = keyFiles
           /\ config' = config
           /\ pc' = "loop" /\ idx' = idx + 1 /\ machines' = machines ]_vars

C1_Witness ==
    /\ pc = "loop" /\ ~dry_run /\ idx = 2 /\ Len(machines) = 2
    /\ MissingAny(machines[1]) /\ ~MissingAny(machines[2])
    /\ kgCalls = <<>> /\ keyFiles = pre.keyFiles

\* C2: in apply mode a valid record whose key path exists invokes no key
\* generation, leaves the key files as they are, and still gets its block
\* appended to the config file.
C2_ExistingKeyKept ==
    [][ (AtRecord /\ ~dry_run /\ ~MissingAny(machines[idx])
         /\ KeyPath(machines[idx]) \in DOMAIN keyFiles)
        => /\ kgCalls' = kgCalls
           /\ keyFiles' = keyFiles
           /\ config'.content = config.content \o Block(machines[idx]) ]_vars

C2_Witness ==
    /\ ~dry_run /\ pc = "done" /\ Len(machines) = 1 /\ machines[1] = ValidUpper
    /\ KeyPath(ValidUpper) \in DOMAIN pre.keyFiles
    /\ keyFiles[KeyPath(ValidUpper)] = <<"old">>
    /\ kgCalls = <<>>
    /\ Printed(Msg("[SKIP] Key already exists", KeyPath(ValidUpper)))
    /\ Contains(config.content, Block(ValidUpper))

\* C3: once two apply runs have completed, the config file holds exactly one
\* occurrence of the sentinel header, whatever the machine lists were.
C3_HeaderOnce ==
    applied >= 2 => Count(config.content, HeaderLine) = 1

C3_Witness ==
    /\ applied = 2 /\ pc = "done" /\ machines = <<>>
    /\ Contains(pre.config.content, HeaderLine)
    /\ Count(config.content, HeaderLine) = 1

\* C4: a dry run leaves the config file and the key files as they were and
\* invokes no key generation; only the keys directory may be created.
C4_DryRunFrame ==
    dry_run => /\ config = pre.config
               /\ keyFiles = pre.keyFiles
               /\ kgCalls = <<>>

C4_Witness ==
    /\ dry_run /\ pc = "done" /\ machines = <<ValidLower>>
    /\ ~pre.keysDir /\ keysDir
    /\ ~config.exists /\ DOMAIN keyFiles = {}
    /\ Printed(Msg("[DRY-RUN] Would generate key", KeyPath(ValidLower)))

\* C5 as stated: in dry-run mode no handle on the config file is opened,
\* neither for reading nor for writing.
C5_NoConfigHandle ==
    dry_run => handles = {}

\* C5 amended: in dry-run mode the config file is never opened for writing;
\* it is opened for reading exactly when it exists, and is never changed.
C5_NoWriteHandle ==
    dry_run => /\ "a+" \notin handles
               /\ pc \in {"prepared", "loop", "done"}
                    => ("r" \in handles <=> config.exists)
               /\ config = pre.config

C5_Witness ==
    dry_run /\ pc = "done" /\ handles = {"r"} /\ Len(machines) > 0

\* C6: in apply mode the blocks appended so far are exactly the blocks of the
\* valid records already passed, in input order and duplicates included; no
\* record stops the loop, and the completed run has printed the confirmation.
C6_BlocksInOrder ==
    /\ (~dry_run /\ pc \in {"loop", "done"})
         => /\ config.content =
                 pre.config.content
                 \o (IF Contains(pre.config.content, HeaderLine)
                     THEN <<>> ELSE HeaderLine \o <<"\n">>)
                 \o BlocksOfValid(SubSeq(machines, 1, idx - 1))
            /\ pc = "done"
                 => /\ idx = Len(machines) + 1
                    /\ console[Len(console)] = Msg("SSH config updated", ssh_config_path)
    /\ pc = "crashed" => idx = 0
    /\ pc = "loop" => ENABLED (Finish \/ \E status \in {0, 1} : ProcessMachine(status))

C6_Witness ==
    /\ ~dry_run /\ pc = "done" /\ Len(machines) = 2
    /\ machines[1] = machines[2] /\ ~MissingAny(machines[1])
    /\ Len(kgCalls) = 2 /\ kgCalls[1].status = 1
    /\ Count(config.content, Block(machines[1])) = 2

\* C7: the config file is append-only: every step leaves its content a
\* prefix of the new content, and never removes the file.
C7_AppendOnly ==
    [][ /\ IsPrefix(config.content, config'.content)
        /\ config.exists => config'.exists ]_vars

C7_Witness ==
    /\ ~dry_run /\ pc = "done" /\ runs = 2 /\ applied = 2
    /\ pre.config.content # <<>>
    /\ Len(config.content) > Len(pre.config.content)
    /\ IsPrefix(pre.config.content, config.content)

\* C8 as stated: when loading fails, the loader returns an empty sequence
\* without raising and the run changes nothing: no key generation, no block,
\* config file unchanged.
C8_LoadFailureIsNoop ==
    (yaml \in FailingFiles /\ pc # "idle")
        => /\ pc # "crashed"
           /\ machines = <<>>
           /\ kgCalls = <<>>
           /\ config = pre.config

\* C9: on a valid record the dry-run branch prints the decision the apply
\* branch takes in the same filesystem state, and previews exactly the block
\* the apply branch appends.
C9_DryMatchesApply ==
    [][ (AtRecord /\ dry_run /\ ~MissingAny(machines[idx]))
        => LET m == machines[idx]
               a == ApplyBranch(m, config, keyFiles, KeyPath(m), 0)
               appended == SubSeq(a.config.content, Len(config.content) + 1,
                                  Len(a.config.content))
           IN /\ appended = Block(m)
              /\ console' = console \o
                   << IF a.calls = <<>>
                      THEN Msg("[SKIP] Key already exists", KeyPath(m))
                      ELSE Msg("[DRY-RUN] Would generate key", KeyPath(m)),
                      Msg("[DRY-RUN] Would append to SSH config", appended) >> ]_vars

C9_Witness ==
    /\ dry_run /\ pc = "done" /\ machines = <<ValidUpper, ValidLower>>
    /\ Printed(Msg("[SKIP] Key already exists", KeyPath(ValidUpper)))
    /\ Printed(Msg("[DRY-RUN] Would generate key", KeyPath(ValidLower)))
    /\ Printed(Msg("[DRY-RUN] Would append to SSH config", Block(ValidUpper)))

\* C10: in apply mode, when the key-generation command returns a nonzero
\* status and leaves no key file, the success message is still printed, the
\* block is still appended, and the loop moves on to the next record.
C10_FailureNotEscalated ==
    [][ (AtRecord /\ ~dry_run /\ ~MissingAny(machines[idx])
         /\ Len(kgCalls') = Len(kgCalls) + 1
         /\ kgCalls'[Len(kgCalls')].status # 0)
        => /\ keyFiles' = keyFiles
           /\ console' = console \o <<Msg("Generated key", KeyPath(machines[idx]))>>
           /\ config'.content = config.content \o Block(machines[idx])
           /\ pc' = "loop" /\ idx' = idx + 1 ]_vars

C10_Witness ==
    /\ ~dry_run /\ pc = "done" /\ machines = <<ValidLower, ValidUpper>>
    /\ DOMAIN pre.keyFiles = {}
    /\ Len(kgCalls) = 2 /\ kgCalls[1].status = 1 /\ kgCalls[2].status = 0
    /\ DOMAIN keyFiles = {KeyPath(ValidUpper)}
    /\ config.content = pre.config.content \o HeaderLine \o <<"\n">>
                        \o Block(ValidLower) \o Block(ValidUpper)
====
